---- MODULE Spec2Model ----
(***************************************************************************)
(* Donor side of a tenant migration: the DataSync -> Blocking transition   *)
(* of src/mongo/db/repl/migrating_tenant_donor_util.cpp.                   *)
(*                                                                         *)
(* One node is modelled.  Its role is fixed in Init: on a primary          *)
(* (writesAreReplicated) the operations are calls of dataSync, running     *)
(* concurrently with tenant writes; on a secondary the operations are      *)
(* calls of the op observer hook onTenantMigrationDonorStateTransition on  *)
(* replicated documents.  Every step that reads or writes state shared     *)
(* between threads (the blocker registry, a registered blocker, the oplog  *)
(* clock, the donors collection) is an action of its own.                  *)
(***************************************************************************)
EXTENDS Naturals, FiniteSets

\* ------------------------------------------------------------------ bounds
\* Highest optime the oplog hands out.
MaxOpTime == 5
\* How many WriteConflictExceptions the storage engine throws in one run.
MaxConflicts == 2

Tenants == {"t1", "t2"}
Ops == {"o1", "o2"}
Writers == {"w1"}

\* --------------------------------------------------------------- the types
\* boost::optional<Timestamp> without a value.
NoTimestamp == 0
Timestamps == 1..MaxOpTime

kDataSync == "kDataSync"
kBlocking == "kBlocking"
kCommitted == "kCommitted"
kAborted == "kAborted"
TenantMigrationDonorStateEnum == {kDataSync, kBlocking, kCommitted, kAborted}

\* A TenantMigrationDonorDocument: databasePrefix, state, blockTimestamp.
TenantMigrationDonorDocument(prefix, state, ts) ==
    [databasePrefix |-> prefix, state |-> state, blockTimestamp |-> ts]

\* No document: an empty slot of the collection, or a local not yet set.
NoDoc == [databasePrefix |-> "", state |-> "", blockTimestamp |-> NoTimestamp]

\* A null std::shared_ptr<MigratingTenantAccessBlocker>.
nullptr == "nullptr"

VARIABLES
    writesAreReplicated,  \* opCtx->writesAreReplicated(): TRUE on a primary
    collection,           \* whether config.tenantMigrationDonors exists
    donors,               \* the committed document of each tenant
    donorsOpTime,         \* the optime of the committed write that made it so
    replicated,           \* the documents a secondary's applier has committed
    nextOpTime,           \* the next optime LocalOplogInfo hands out
    mtabByPrefix,         \* the registry: tenant -> blocker (its id) or nullptr
    mtabs,                \* the heap of MigratingTenantAccessBlockers, by id
    fatal,                \* "" or the invariant that aborted the process
    pc,                   \* position of each operation
    originalDoc,          \* dataSync's argument
    donorDoc,             \* the document the op observer is called with
    mtab,                 \* onTransitionToBlocking's local mtab
    oplogSlot,            \* the optime reserved by the current attempt
    status,               \* what the operation returned to its caller
    conflicts,            \* WriteConflictExceptions thrown so far
    writer                \* the tenant writes in flight

opVars == <<pc, originalDoc, donorDoc, mtab, oplogSlot, status>>
storeVars == <<collection, donors, donorsOpTime>>
vars == <<writesAreReplicated, collection, donors, donorsOpTime, replicated, nextOpTime,
          mtabByPrefix,
          mtabs, fatal, pc, originalDoc, donorDoc, mtab, oplogSlot, status,
          conflicts, writer>>

\* ------------------------------------------- MigratingTenantAccessBlocker
\* The object std::make_shared<MigratingTenantAccessBlocker> returns.
MigratingTenantAccessBlocker ==
    [created |-> TRUE, writesBlocked |-> FALSE, readsBlockedAfter |-> NoTimestamp]

\* A heap cell no blocker was constructed in.
NoBlocker ==
    [created |-> FALSE, writesBlocked |-> FALSE, readsBlockedAfter |-> NoTimestamp]

isBlockingWrites(b) == b.writesBlocked

blockedReadPosition(b) == b.readsBlockedAfter

\* startBlockingWrites must not be called on a blocker that blocks reads.
startBlockingWritesAllowed(b) == b.readsBlockedAfter = NoTimestamp

startBlockingWrites(b) == [b EXCEPT !.writesBlocked = TRUE]

\* startBlockingReadsAfter requires that writes are blocked.
startBlockingReadsAfterAllowed(b) == b.writesBlocked

startBlockingReadsAfter(b, ts) == [b EXCEPT !.readsBlockedAfter = ts]

\* ------------------------------------ MigratingTenantAccessBlockerByPrefix
getMigratingTenantBlocker(reg, prefix) == reg[prefix]

\* add() is an invariant failure when the prefix already has a blocker.
addAllowed(reg, prefix) == reg[prefix] = nullptr

add(reg, prefix, id) == [reg EXCEPT ![prefix] = id]

\* ------------------------------------------------------------------- Init
Init ==
    /\ writesAreReplicated \in BOOLEAN
    /\ collection \in BOOLEAN
    /\ donors \in [Tenants -> {NoDoc} \cup
                     {TenantMigrationDonorDocument(t, kDataSync, NoTimestamp) : t \in Tenants}]
    /\ \A t \in Tenants : donors[t] # NoDoc => collection /\ donors[t].databasePrefix = t
    /\ donorsOpTime = [t \in Tenants |-> NoTimestamp]
    /\ replicated = [t \in Tenants |-> NoDoc]
    /\ nextOpTime = 1
    /\ mtabByPrefix = [t \in Tenants |-> nullptr]
    /\ mtabs = [o \in Ops |-> NoBlocker]
    /\ fatal = ""
    /\ pc = [o \in Ops |-> "idle"]
    /\ originalDoc = [o \in Ops |-> NoDoc]
    /\ donorDoc = [o \in Ops |-> NoDoc]
    /\ mtab = [o \in Ops |-> nullptr]
    /\ oplogSlot = [o \in Ops |-> NoTimestamp]
    /\ status = [o \in Ops |-> ""]
    /\ conflicts = 0
    /\ writer = [w \in Writers |-> [pc |-> "idle", prefix |-> "", opTime |-> NoTimestamp]]

\* The process aborts in operation o: nothing runs after it.
Abort(o, why) ==
    /\ fatal' = why
    /\ pc' = [pc EXCEPT ![o] = "fatal"]

\* What an operation does when the observer hook returns: on a primary the
\* hook ran inside updateDocument and the unit of work goes on to commit; on a
\* secondary the hook ran inside the applier's update of its copy of the
\* collection, which commits the observed document, and the applied operation
\* is over.
ObserverReturns(o) ==
    IF writesAreReplicated
    THEN /\ pc' = [pc EXCEPT ![o] = "commit"]
         /\ UNCHANGED <<status, replicated>>
    ELSE /\ pc' = [pc EXCEPT ![o] = "returned"]
         /\ status' = [status EXCEPT ![o] = "OK"]
         /\ replicated' = [replicated EXCEPT ![donorDoc[o].databasePrefix] = donorDoc[o]]

\* ------------------------------------------------- dataSync (the primary)
\* A caller enters dataSync with a donor document of some tenant.
dataSync(o) ==
    /\ fatal = "" /\ writesAreReplicated /\ pc[o] = "idle"
    /\ \E t \in Tenants, st \in TenantMigrationDonorStateEnum :
          originalDoc' = [originalDoc EXCEPT
                             ![o] = TenantMigrationDonorDocument(t, st, NoTimestamp)]
    /\ pc' = [pc EXCEPT ![o] = "startTenantMigrationBlockOnPrimary"]
    /\ UNCHANGED <<writesAreReplicated, replicated, storeVars, nextOpTime, mtabByPrefix, mtabs,
                   fatal, donorDoc, mtab, oplogSlot, status, conflicts, writer>>

\* startTenantMigrationBlockOnPrimary without the invariant of line 151.
startTenantMigrationBlockOnPrimary_noInvariant(o) ==
    /\ fatal = "" /\ pc[o] = "startTenantMigrationBlockOnPrimary"
    /\ mtabs' = [mtabs EXCEPT
                    ![o] = startBlockingWrites(MigratingTenantAccessBlocker)]
    /\ pc' = [pc EXCEPT ![o] = "mtabByPrefix.add"]
    /\ UNCHANGED <<writesAreReplicated, replicated, storeVars, nextOpTime, mtabByPrefix, fatal,
                   originalDoc, donorDoc, mtab, oplogSlot, status, conflicts, writer>>

\* startTenantMigrationBlockOnPrimary without line 157: the blocker is made
\* and registered but never told to block writes.
startTenantMigrationBlockOnPrimary_noStartBlockingWrites(o) ==
    /\ fatal = "" /\ pc[o] = "startTenantMigrationBlockOnPrimary"
    /\ IF originalDoc[o].state # kDataSync
       THEN /\ Abort(o, "invariant:151")
            /\ UNCHANGED mtabs
       ELSE /\ mtabs' = [mtabs EXCEPT ![o] = MigratingTenantAccessBlocker]
            /\ pc' = [pc EXCEPT ![o] = "mtabByPrefix.add"]
            /\ UNCHANGED fatal
    /\ UNCHANGED <<writesAreReplicated, replicated, storeVars, nextOpTime, mtabByPrefix,
                   originalDoc, donorDoc, mtab, oplogSlot, status, conflicts, writer>>

\* Lines 151-157: the blocker is made and told to block writes.
startTenantMigrationBlockOnPrimary(o) ==
    /\ fatal = "" /\ pc[o] = "startTenantMigrationBlockOnPrimary"
    /\ IF originalDoc[o].state # kDataSync
       THEN /\ Abort(o, "invariant:151")
            /\ UNCHANGED mtabs
       ELSE /\ mtabs' = [mtabs EXCEPT
                            ![o] = startBlockingWrites(MigratingTenantAccessBlocker)]
            /\ pc' = [pc EXCEPT ![o] = "mtabByPrefix.add"]
            /\ UNCHANGED fatal
    /\ UNCHANGED <<writesAreReplicated, replicated, storeVars, nextOpTime, mtabByPrefix,
                   originalDoc, donorDoc, mtab, oplogSlot, status, conflicts, writer>>

\* Lines 159-160 with a registry insertion that replaces an existing entry.
startTenantMigrationBlockOnPrimary_addOrReplace(o) ==
    /\ fatal = "" /\ pc[o] = "mtabByPrefix.add"
    /\ mtabByPrefix' = add(mtabByPrefix, originalDoc[o].databasePrefix, o)
    /\ pc' = [pc EXCEPT ![o] = "doStartBlockingWrite"]
    /\ UNCHANGED <<writesAreReplicated, replicated, storeVars, nextOpTime, mtabs, fatal,
                   originalDoc, donorDoc, mtab, oplogSlot, status, conflicts, writer>>

\* Lines 159-160, and dataSync's own invariant of line 97.
startTenantMigrationBlockOnPrimary_add(o) ==
    /\ fatal = "" /\ pc[o] = "mtabByPrefix.add"
    /\ IF ~addAllowed(mtabByPrefix, originalDoc[o].databasePrefix)
       THEN /\ Abort(o, "invariant:add")
            /\ UNCHANGED mtabByPrefix
       ELSE /\ mtabByPrefix' = add(mtabByPrefix, originalDoc[o].databasePrefix, o)
            /\ pc' = [pc EXCEPT ![o] = "doStartBlockingWrite"]
            /\ UNCHANGED fatal
    /\ UNCHANGED <<writesAreReplicated, replicated, storeVars, nextOpTime, mtabs,
                   originalDoc, donorDoc, mtab, oplogSlot, status, conflicts, writer>>

\* Helpers::findOne with originalDoc.toBSON() as the query: the committed
\* document of the tenant when it equals originalDoc, else a null RecordId.
findOne(o) ==
    IF donors[originalDoc[o].databasePrefix] = originalDoc[o]
    THEN originalDoc[o].databasePrefix
    ELSE ""

\* Lines 104-118: one attempt of the retried lambda opens the collection and
\* looks the document up.  A missing namespace is a Status that
\* uassertStatusOK throws to dataSync's caller.
doStartBlockingWrite(o) ==
    /\ fatal = "" /\ pc[o] = "doStartBlockingWrite"
    /\ IF ~collection
       THEN /\ status' = [status EXCEPT ![o] = "NamespaceNotFound"]
            /\ pc' = [pc EXCEPT ![o] = "returned"]
            /\ UNCHANGED fatal
       ELSE IF findOne(o) = ""
       THEN /\ Abort(o, "invariant:118")
            /\ UNCHANGED status
       ELSE /\ pc' = [pc EXCEPT ![o] = "getNextOpTimes"]
            /\ UNCHANGED <<fatal, status>>
    /\ UNCHANGED <<writesAreReplicated, replicated, storeVars, nextOpTime, mtabByPrefix, mtabs,
                   originalDoc, donorDoc, mtab, oplogSlot, conflicts, writer>>

\* Line 121: the optime of the "start blocking" write is reserved.
getNextOpTimes(o) ==
    /\ fatal = "" /\ pc[o] = "getNextOpTimes"
    /\ nextOpTime <= MaxOpTime
    /\ oplogSlot' = [oplogSlot EXCEPT ![o] = nextOpTime]
    /\ nextOpTime' = nextOpTime + 1
    /\ pc' = [pc EXCEPT ![o] = "updateDocument"]
    /\ UNCHANGED <<writesAreReplicated, replicated, storeVars, mtabByPrefix, mtabs, fatal,
                   originalDoc, donorDoc, mtab, status, conflicts, writer>>

\* Lines 123-127: the document the attempt writes.
updatedDoc(o) ==
    TenantMigrationDonorDocument(originalDoc[o].databasePrefix, kBlocking, oplogSlot[o])

\* The arguments without line 132: the write is logged at an optime of its
\* own, the next one the oplog hands out.
CollectionUpdateArgs_noOplogSlot(o) ==
    [update |-> updatedDoc(o), oplogSlot |-> nextOpTime]

\* Lines 129-132: the update's arguments; the write is logged at args.oplogSlot.
CollectionUpdateArgs(o) ==
    [update |-> updatedDoc(o), oplogSlot |-> oplogSlot[o]]

\* The update not reaching the op observer: the unit of work goes on to
\* commit without onTenantMigrationDonorStateTransition having run.
updateDocument_noObserver(o) ==
    /\ fatal = "" /\ pc[o] = "updateDocument"
    /\ donorDoc' = [donorDoc EXCEPT ![o] = CollectionUpdateArgs(o).update]
    /\ pc' = [pc EXCEPT ![o] = "commit"]
    /\ UNCHANGED <<writesAreReplicated, replicated, storeVars, nextOpTime, mtabByPrefix, mtabs,
                   fatal, originalDoc, mtab, oplogSlot, status, conflicts, writer>>

\* Lines 134-141: the update inside the unit of work; the collection calls the
\* op observer with the updated document before the unit of work commits.
updateDocument(o) ==
    /\ fatal = "" /\ pc[o] = "updateDocument"
    /\ donorDoc' = [donorDoc EXCEPT ![o] = CollectionUpdateArgs(o).update]
    /\ pc' = [pc EXCEPT ![o] = "onTenantMigrationDonorStateTransition"]
    /\ UNCHANGED <<writesAreReplicated, replicated, storeVars, nextOpTime, mtabByPrefix, mtabs,
                   fatal, originalDoc, mtab, oplogSlot, status, conflicts, writer>>

\* A retry whose rollback also takes back the read gate of the op's blocker.
writeConflictRetry_unblockReads(o) ==
    /\ fatal = "" /\ pc[o] \in {"updateDocument", "commit"}
    /\ conflicts < MaxConflicts
    /\ conflicts' = conflicts + 1
    /\ oplogSlot' = [oplogSlot EXCEPT ![o] = NoTimestamp]
    /\ mtabs' = [mtabs EXCEPT ![o].readsBlockedAfter = NoTimestamp]
    /\ pc' = [pc EXCEPT ![o] = "doStartBlockingWrite"]
    /\ UNCHANGED <<writesAreReplicated, replicated, storeVars, nextOpTime, mtabByPrefix,
                   fatal, originalDoc, donorDoc, mtab, status, writer>>

\* The retry loop put around the whole of dataSync: a conflict runs line 95
\* again, not only the lambda.
writeConflictRetry_fromTheTop(o) ==
    /\ fatal = "" /\ pc[o] \in {"updateDocument", "commit"}
    /\ conflicts < MaxConflicts
    /\ conflicts' = conflicts + 1
    /\ oplogSlot' = [oplogSlot EXCEPT ![o] = NoTimestamp]
    /\ pc' = [pc EXCEPT ![o] = "startTenantMigrationBlockOnPrimary"]
    /\ UNCHANGED <<writesAreReplicated, replicated, storeVars, nextOpTime, mtabByPrefix, mtabs,
                   fatal, originalDoc, donorDoc, mtab, status, writer>>

\* writeConflictRetry left out: the WriteConflictException of the storage
\* engine rolls the unit of work back and reaches dataSync's caller.
writeConflictRetry_rethrow(o) ==
    /\ fatal = "" /\ pc[o] \in {"updateDocument", "commit"}
    /\ conflicts < MaxConflicts
    /\ conflicts' = conflicts + 1
    /\ oplogSlot' = [oplogSlot EXCEPT ![o] = NoTimestamp]
    /\ status' = [status EXCEPT ![o] = "WriteConflict"]
    /\ pc' = [pc EXCEPT ![o] = "returned"]
    /\ UNCHANGED <<writesAreReplicated, replicated, storeVars, nextOpTime, mtabByPrefix, mtabs,
                   fatal, originalDoc, donorDoc, mtab, writer>>

\* Lines 99-103: a WriteConflictException of the storage engine, thrown by the
\* update or by the commit, rolls the unit of work back (nothing of it was
\* visible) and writeConflictRetry runs the lambda again.
writeConflictRetry(o) ==
    /\ fatal = "" /\ pc[o] \in {"updateDocument", "commit"}
    /\ conflicts < MaxConflicts
    /\ conflicts' = conflicts + 1
    /\ oplogSlot' = [oplogSlot EXCEPT ![o] = NoTimestamp]
    /\ pc' = [pc EXCEPT ![o] = "doStartBlockingWrite"]
    /\ UNCHANGED <<writesAreReplicated, replicated, storeVars, nextOpTime, mtabByPrefix, mtabs,
                   fatal, originalDoc, donorDoc, mtab, status, writer>>

\* Lines 143-145: the unit of work commits; the document becomes visible at
\* the reserved optime and the lambda returns Status::OK().
commit(o) ==
    /\ fatal = "" /\ pc[o] = "commit"
    /\ donors' = [donors EXCEPT
                     ![originalDoc[o].databasePrefix] = CollectionUpdateArgs(o).update]
    /\ donorsOpTime' = [donorsOpTime EXCEPT
                           ![originalDoc[o].databasePrefix] = CollectionUpdateArgs(o).oplogSlot]
    /\ status' = [status EXCEPT ![o] = "OK"]
    /\ pc' = [pc EXCEPT ![o] = "returned"]
    /\ UNCHANGED <<writesAreReplicated, replicated, collection, nextOpTime, mtabByPrefix, mtabs,
                   fatal, originalDoc, donorDoc, mtab, oplogSlot, conflicts, writer>>

\* ------------------------------------------------------- the op observer
\* A secondary applies a replicated update of the donors collection: the
\* hook is called with the document of the oplog entry.
applyOnSecondary(o) ==
    /\ fatal = "" /\ ~writesAreReplicated /\ pc[o] = "idle"
    /\ \E t \in Tenants, st \in TenantMigrationDonorStateEnum,
          ts \in {NoTimestamp} \cup Timestamps :
          donorDoc' = [donorDoc EXCEPT ![o] = TenantMigrationDonorDocument(t, st, ts)]
    /\ pc' = [pc EXCEPT ![o] = "onTenantMigrationDonorStateTransition"]
    /\ UNCHANGED <<writesAreReplicated, replicated, storeVars, nextOpTime, mtabByPrefix, mtabs,
                   fatal, originalDoc, mtab, oplogSlot, status, conflicts, writer>>

\* The switch with the break of case kDataSync missing (line 181): a
\* kDataSync document falls through into the kBlocking case.
onTenantMigrationDonorStateTransition_fallThrough(o) ==
    /\ fatal = "" /\ pc[o] = "onTenantMigrationDonorStateTransition"
    /\ IF donorDoc[o].state \in {kDataSync, kBlocking}
       THEN /\ pc' = [pc EXCEPT ![o] = "onTransitionToBlocking"]
            /\ UNCHANGED <<status, replicated>>
       ELSE ObserverReturns(o)
    /\ UNCHANGED <<writesAreReplicated, storeVars, nextOpTime, mtabByPrefix, mtabs,
                   fatal, originalDoc, donorDoc, mtab, oplogSlot, conflicts, writer>>

\* The switch without its kBlocking case: every state just breaks.
onTenantMigrationDonorStateTransition_noBlockingCase(o) ==
    /\ fatal = "" /\ pc[o] = "onTenantMigrationDonorStateTransition"
    /\ ObserverReturns(o)
    /\ UNCHANGED <<writesAreReplicated, storeVars, nextOpTime, mtabByPrefix, mtabs,
                   fatal, originalDoc, donorDoc, mtab, oplogSlot, conflicts, writer>>

\* Lines 176-192: the switch on the document's state.
onTenantMigrationDonorStateTransition(o) ==
    /\ fatal = "" /\ pc[o] = "onTenantMigrationDonorStateTransition"
    /\ IF donorDoc[o].state = kBlocking
       THEN /\ pc' = [pc EXCEPT ![o] = "onTransitionToBlocking"]
            /\ UNCHANGED <<status, replicated>>
       ELSE ObserverReturns(o)
    /\ UNCHANGED <<writesAreReplicated, storeVars, nextOpTime, mtabByPrefix, mtabs,
                   fatal, originalDoc, donorDoc, mtab, oplogSlot, conflicts, writer>>

\* Line 59 left out: a Blocking document is not checked for its
\* blockTimestamp before the registry is looked at.
onTransitionToBlocking_noBlockTimestampInvariant(o) ==
    /\ fatal = "" /\ pc[o] = "onTransitionToBlocking"
    /\ LET m == getMigratingTenantBlocker(mtabByPrefix, donorDoc[o].databasePrefix) IN
       IF writesAreReplicated
       THEN /\ mtab' = [mtab EXCEPT ![o] = m]
            /\ pc' = [pc EXCEPT ![o] = "startBlockingReadsAfter"]
            /\ UNCHANGED <<fatal, mtabs>>
       ELSE IF m # nullptr
       THEN /\ Abort(o, "invariant:68")
            /\ UNCHANGED <<mtab, mtabs>>
       ELSE /\ mtab' = [mtab EXCEPT ![o] = o]
            /\ mtabs' = [mtabs EXCEPT ![o] = MigratingTenantAccessBlocker]
            /\ pc' = [pc EXCEPT ![o] = "mtabByPrefix.add(secondary)"]
            /\ UNCHANGED fatal
    /\ UNCHANGED <<writesAreReplicated, replicated, storeVars, nextOpTime, mtabByPrefix,
                   originalDoc, donorDoc, oplogSlot, status, conflicts, writer>>

\* Line 68 left out: a secondary that finds a blocker registered for the
\* tenant uses it, as a primary does.
onTransitionToBlocking_reuseOnSecondary(o) ==
    /\ fatal = "" /\ pc[o] = "onTransitionToBlocking"
    /\ LET m == getMigratingTenantBlocker(mtabByPrefix, donorDoc[o].databasePrefix) IN
       IF donorDoc[o].blockTimestamp = NoTimestamp
       THEN /\ Abort(o, "invariant:59")
            /\ UNCHANGED <<mtab, mtabs>>
       ELSE IF writesAreReplicated \/ m # nullptr
       THEN /\ mtab' = [mtab EXCEPT ![o] = m]
            /\ pc' = [pc EXCEPT ![o] = "startBlockingReadsAfter"]
            /\ UNCHANGED <<fatal, mtabs>>
       ELSE /\ mtab' = [mtab EXCEPT ![o] = o]
            /\ mtabs' = [mtabs EXCEPT ![o] = MigratingTenantAccessBlocker]
            /\ pc' = [pc EXCEPT ![o] = "mtabByPrefix.add(secondary)"]
            /\ UNCHANGED fatal
    /\ UNCHANGED <<writesAreReplicated, replicated, storeVars, nextOpTime, mtabByPrefix,
                   originalDoc, donorDoc, oplogSlot, status, conflicts, writer>>

\* Line 62 looking the blocker up under the wrong key: the lookup returns the
\* entry of another tenant when there is one.
onTransitionToBlocking_wrongPrefix(o) ==
    /\ fatal = "" /\ pc[o] = "onTransitionToBlocking"
    /\ LET others == {t \in Tenants : /\ t # donorDoc[o].databasePrefix
                                      /\ mtabByPrefix[t] # nullptr}
           m == IF others # {}
                THEN getMigratingTenantBlocker(mtabByPrefix, CHOOSE t \in others : TRUE)
                ELSE getMigratingTenantBlocker(mtabByPrefix, donorDoc[o].databasePrefix) IN
       IF donorDoc[o].blockTimestamp = NoTimestamp
       THEN /\ Abort(o, "invariant:59")
            /\ UNCHANGED <<mtab, mtabs>>
       ELSE IF writesAreReplicated
       THEN /\ mtab' = [mtab EXCEPT ![o] = m]
            /\ pc' = [pc EXCEPT ![o] = "startBlockingReadsAfter"]
            /\ UNCHANGED <<fatal, mtabs>>
       ELSE IF m # nullptr
       THEN /\ Abort(o, "invariant:68")
            /\ UNCHANGED <<mtab, mtabs>>
       ELSE /\ mtab' = [mtab EXCEPT ![o] = o]
            /\ mtabs' = [mtabs EXCEPT ![o] = MigratingTenantAccessBlocker]
            /\ pc' = [pc EXCEPT ![o] = "mtabByPrefix.add(secondary)"]
            /\ UNCHANGED fatal
    /\ UNCHANGED <<writesAreReplicated, replicated, storeVars, nextOpTime, mtabByPrefix,
                   originalDoc, donorDoc, oplogSlot, status, conflicts, writer>>

\* Lines 58-73: the invariants, the registry lookup and, on a secondary, the
\* construction of the blocker.
onTransitionToBlocking(o) ==
    /\ fatal = "" /\ pc[o] = "onTransitionToBlocking"
    /\ LET m == getMigratingTenantBlocker(mtabByPrefix, donorDoc[o].databasePrefix) IN
       IF donorDoc[o].blockTimestamp = NoTimestamp
       THEN /\ Abort(o, "invariant:59")
            /\ UNCHANGED <<mtab, mtabs>>
       ELSE IF writesAreReplicated
       THEN /\ mtab' = [mtab EXCEPT ![o] = m]
            /\ pc' = [pc EXCEPT ![o] = "startBlockingReadsAfter"]
            /\ UNCHANGED <<fatal, mtabs>>
       ELSE IF m # nullptr
       THEN /\ Abort(o, "invariant:68")
            /\ UNCHANGED <<mtab, mtabs>>
       ELSE /\ mtab' = [mtab EXCEPT ![o] = o]
            /\ mtabs' = [mtabs EXCEPT ![o] = MigratingTenantAccessBlocker]
            /\ pc' = [pc EXCEPT ![o] = "mtabByPrefix.add(secondary)"]
            /\ UNCHANGED fatal
    /\ UNCHANGED <<writesAreReplicated, replicated, storeVars, nextOpTime, mtabByPrefix,
                   originalDoc, donorDoc, oplogSlot, status, conflicts, writer>>

\* Line 74: the secondary registers the blocker.
onTransitionToBlocking_add(o) ==
    /\ fatal = "" /\ pc[o] = "mtabByPrefix.add(secondary)"
    /\ IF ~addAllowed(mtabByPrefix, donorDoc[o].databasePrefix)
       THEN /\ Abort(o, "invariant:add")
            /\ UNCHANGED mtabByPrefix
       ELSE /\ mtabByPrefix' = add(mtabByPrefix, donorDoc[o].databasePrefix, mtab[o])
            /\ pc' = [pc EXCEPT ![o] = "startBlockingWrites"]
            /\ UNCHANGED fatal
    /\ UNCHANGED <<writesAreReplicated, replicated, storeVars, nextOpTime, mtabs,
                   originalDoc, donorDoc, mtab, oplogSlot, status, conflicts, writer>>

\* Line 75 left out: the secondary never calls startBlockingWrites.
onTransitionToBlocking_noStartBlockingWrites(o) ==
    /\ fatal = "" /\ pc[o] = "startBlockingWrites"
    /\ pc' = [pc EXCEPT ![o] = "startBlockingReadsAfter"]
    /\ UNCHANGED <<writesAreReplicated, replicated, storeVars, nextOpTime, mtabByPrefix, mtabs,
                   fatal, originalDoc, donorDoc, mtab, oplogSlot, status, conflicts,
                   writer>>

\* Line 75: the secondary blocks writes on the registered blocker.
onTransitionToBlocking_startBlockingWrites(o) ==
    /\ fatal = "" /\ pc[o] = "startBlockingWrites"
    /\ IF ~startBlockingWritesAllowed(mtabs[mtab[o]])
       THEN /\ Abort(o, "invariant:startBlockingWrites")
            /\ UNCHANGED mtabs
       ELSE /\ mtabs' = [mtabs EXCEPT ![mtab[o]] = startBlockingWrites(@)]
            /\ pc' = [pc EXCEPT ![o] = "startBlockingReadsAfter"]
            /\ UNCHANGED fatal
    /\ UNCHANGED <<writesAreReplicated, replicated, storeVars, nextOpTime, mtabByPrefix,
                   originalDoc, donorDoc, mtab, oplogSlot, status, conflicts, writer>>

\* Lines 78-83 with startBlockingReadsAfter called on a primary only.
onTransitionToBlocking_readsOnPrimaryOnly(o) ==
    /\ fatal = "" /\ pc[o] = "startBlockingReadsAfter"
    /\ IF mtab[o] = nullptr
       THEN /\ Abort(o, "invariant:78")
            /\ UNCHANGED <<mtabs, status, replicated>>
       ELSE IF ~startBlockingReadsAfterAllowed(mtabs[mtab[o]])
       THEN /\ Abort(o, "invariant:startBlockingReadsAfter")
            /\ UNCHANGED <<mtabs, status, replicated>>
       ELSE /\ mtabs' = IF writesAreReplicated
                        THEN [mtabs EXCEPT ![mtab[o]] =
                                 startBlockingReadsAfter(@, donorDoc[o].blockTimestamp)]
                        ELSE mtabs
            /\ ObserverReturns(o)
            /\ UNCHANGED fatal
    /\ UNCHANGED <<writesAreReplicated, storeVars, nextOpTime, mtabByPrefix,
                   originalDoc, donorDoc, mtab, oplogSlot, conflicts, writer>>

\* Lines 78-83: both roles block reads after the document's blockTimestamp.
onTransitionToBlocking_startBlockingReadsAfter(o) ==
    /\ fatal = "" /\ pc[o] = "startBlockingReadsAfter"
    /\ IF mtab[o] = nullptr
       THEN /\ Abort(o, "invariant:78")
            /\ UNCHANGED <<mtabs, status, replicated>>
       ELSE IF ~startBlockingReadsAfterAllowed(mtabs[mtab[o]])
       THEN /\ Abort(o, "invariant:startBlockingReadsAfter")
            /\ UNCHANGED <<mtabs, status, replicated>>
       ELSE /\ mtabs' = [mtabs EXCEPT
                            ![mtab[o]] = startBlockingReadsAfter(@, donorDoc[o].blockTimestamp)]
            /\ ObserverReturns(o)
            /\ UNCHANGED fatal
    /\ UNCHANGED <<writesAreReplicated, storeVars, nextOpTime, mtabByPrefix,
                   originalDoc, donorDoc, mtab, oplogSlot, conflicts, writer>>

\* ------------------------------------------------------ the tenant writes
\* A write of a tenant's data is admitted by looking the tenant up in the
\* registry and consulting isBlockingWrites().
write_admit(w) ==
    /\ fatal = "" /\ writesAreReplicated /\ writer[w].pc = "idle"
    /\ \E t \in Tenants :
          LET m == getMigratingTenantBlocker(mtabByPrefix, t) IN
          writer' = [writer EXCEPT
                        ![w] = [pc |-> IF m # nullptr /\ isBlockingWrites(mtabs[m])
                                       THEN "blocked" ELSE "admitted",
                                prefix |-> t, opTime |-> NoTimestamp]]
    /\ UNCHANGED <<writesAreReplicated, replicated, storeVars, nextOpTime, mtabByPrefix, mtabs,
                   fatal, opVars, conflicts>>

\* An admitted write requests its log position.
write_getNextOpTimes(w) ==
    /\ fatal = "" /\ writer[w].pc = "admitted"
    /\ nextOpTime <= MaxOpTime
    /\ writer' = [writer EXCEPT ![w].pc = "written", ![w].opTime = nextOpTime]
    /\ nextOpTime' = nextOpTime + 1
    /\ UNCHANGED <<writesAreReplicated, replicated, storeVars, mtabByPrefix, mtabs,
                   fatal, opVars, conflicts>>

\* ------------------------------------------------------------------- Next
Next ==
    \/ \E o \in Ops : dataSync(o)
    \/ \E o \in Ops : startTenantMigrationBlockOnPrimary(o)
    \/ \E o \in Ops : startTenantMigrationBlockOnPrimary_add(o)
    \/ \E o \in Ops : doStartBlockingWrite(o)
    \/ \E o \in Ops : getNextOpTimes(o)
    \/ \E o \in Ops : updateDocument(o)
    \/ \E o \in Ops : writeConflictRetry(o)
    \/ \E o \in Ops : commit(o)
    \/ \E o \in Ops : applyOnSecondary(o)
    \/ \E o \in Ops : onTenantMigrationDonorStateTransition(o)
    \/ \E o \in Ops : onTransitionToBlocking(o)
    \/ \E o \in Ops : onTransitionToBlocking_add(o)
    \/ \E o \in Ops : onTransitionToBlocking_startBlockingWrites(o)
    \/ \E o \in Ops : onTransitionToBlocking_startBlockingReadsAfter(o)
    \/ \E w \in Writers : write_admit(w)
    \/ \E w \in Writers : write_getNextOpTimes(w)

Spec == Init /\ [][Next]_vars

\* Every thread that can take a step is eventually scheduled.  All threads
\* are finite and the storage engine throws at most MaxConflicts conflicts,
\* so weak fairness of Next is what the scheduler gives.
FairSpec == Spec /\ WF_vars(Next)

\* -------------------------------------------------------------- the types
TypeOK ==
    /\ writesAreReplicated \in BOOLEAN
    /\ collection \in BOOLEAN
    /\ nextOpTime \in 1..(MaxOpTime + 1)
    /\ mtabByPrefix \in [Tenants -> Ops \cup {nullptr}]
    /\ \A o \in Ops : mtabs[o].readsBlockedAfter \in {NoTimestamp} \cup Timestamps
    /\ mtab \in [Ops -> Ops \cup {nullptr}]
    /\ conflicts \in 0..MaxConflicts
    /\ \A t \in Tenants : replicated[t] = NoDoc \/ replicated[t].databasePrefix = t

\* ============================================================== the claims
\* The operation of a primary that holds the registry entry of tenant t.
Succeeded(o) == pc[o] = "returned" /\ status[o] = "OK"

\* C1: in every primary-role dataSync the three cutover steps are ordered:
\* the optime is reserved only when startBlockingWrites has completed on the
\* tenant's registered blocker; startBlockingReadsAfter is called only with a
\* reserved optime, the one of the current attempt, on a blocker that blocks
\* writes; and the document that commits carries as blockTimestamp that same
\* optime, which is also the optime the write is logged at.
C1_CutoverOrder ==
    [][writesAreReplicated =>
        /\ \A o \in Ops :
              (oplogSlot'[o] # oplogSlot[o] /\ oplogSlot'[o] # NoTimestamp) =>
                  /\ mtabByPrefix[originalDoc[o].databasePrefix] = o
                  /\ isBlockingWrites(mtabs[o])
                  /\ blockedReadPosition(mtabs[o]) # oplogSlot'[o]
        /\ \A b \in Ops :
              blockedReadPosition(mtabs'[b]) # blockedReadPosition(mtabs[b]) =>
                  /\ isBlockingWrites(mtabs[b])
                  /\ oplogSlot[b] # NoTimestamp
                  /\ blockedReadPosition(mtabs'[b]) = oplogSlot[b]
        /\ \A t \in Tenants :
              donors'[t] # donors[t] =>
                  /\ mtabByPrefix[t] # nullptr
                  /\ donors'[t].blockTimestamp = oplogSlot[mtabByPrefix[t]]
                  /\ donors'[t].blockTimestamp = blockedReadPosition(mtabs[mtabByPrefix[t]])
                  /\ donors'[t].blockTimestamp = donorsOpTime'[t]
      ]_vars

\* A dataSync has gone through all three steps and committed.
C1_Witness ==
    \E o \in Ops :
        /\ writesAreReplicated /\ Succeeded(o)
        /\ donors[originalDoc[o].databasePrefix].blockTimestamp = oplogSlot[o]

\* C2 as stated: no write admitted while its tenant was not blocking writes
\* (a write that reaches "written" was admitted so) is assigned a log position
\* greater than or equal to the committed blockTimestamp of its tenant.
C2_NoAdmittedWriteAtOrAfterBoundary ==
    \A w \in Writers :
        (writer[w].pc = "written" /\ donors[writer[w].prefix].state = kBlocking) =>
            writer[w].opTime < donors[writer[w].prefix].blockTimestamp

\* C2 amended: a write whose admission (registry lookup and isBlockingWrites)
\* comes after a dataSync of its tenant reserved the boundary optime is never
\* admitted as unblocked: every step that admits a write happens while no
\* dataSync of that tenant holds a reserved optime and no blockTimestamp is
\* committed for it.
C2_NoAdmissionAfterBoundary ==
    [][\A w \in Writers :
          (writer[w].pc = "idle" /\ writer'[w].pc = "admitted") =>
              /\ donors[writer'[w].prefix].blockTimestamp = NoTimestamp
              /\ \A o \in Ops :
                    originalDoc[o].databasePrefix = writer'[w].prefix =>
                        oplogSlot[o] = NoTimestamp
      ]_vars

\* A write asked for admission after its tenant's boundary was reserved, and
\* found the tenant blocking writes.
C2_Witness ==
    \E w \in Writers, o \in Ops :
        /\ writer[w].pc = "blocked"
        /\ originalDoc[o].databasePrefix = writer[w].prefix
        /\ oplogSlot[o] # NoTimestamp
        /\ nextOpTime = oplogSlot[o] + 1

\* C3: every successful primary-role dataSync, retried or not, ends with the
\* committed document in state Blocking with the optime P its committing
\* attempt reserved, and the tenant's registered blocker blocking writes and
\* blocking reads after that same P.
C3_EndToEnd ==
    \A o \in Ops :
        (writesAreReplicated /\ Succeeded(o)) =>
            LET t == originalDoc[o].databasePrefix IN
            /\ oplogSlot[o] # NoTimestamp
            /\ donors[t] = TenantMigrationDonorDocument(t, kBlocking, oplogSlot[o])
            /\ mtabByPrefix[t] # nullptr
            /\ isBlockingWrites(mtabs[mtabByPrefix[t]])
            /\ blockedReadPosition(mtabs[mtabByPrefix[t]]) = oplogSlot[o]

\* A dataSync succeeded after every write conflict the run allows.
C3_Witness ==
    \E o \in Ops :
        /\ writesAreReplicated /\ Succeeded(o)
        /\ conflicts = MaxConflicts
        /\ oplogSlot[o] > 1

\* What the read and write paths can observe of tenant t: whether it has a
\* registered blocker, and that blocker's two gates.
ObservableState(t) ==
    IF mtabByPrefix[t] = nullptr
    THEN [registered |-> FALSE, writesBlocked |-> FALSE, blockedReadPosition |-> NoTimestamp]
    ELSE [registered |-> TRUE,
          writesBlocked |-> isBlockingWrites(mtabs[mtabByPrefix[t]]),
          blockedReadPosition |-> blockedReadPosition(mtabs[mtabByPrefix[t]])]

\* C4: for a Blocking document with boundary T, the primary path
\* (startTenantMigrationBlockOnPrimary, then the observer inside the update)
\* and the secondary path (the observer alone) both end with the same
\* observable state of the tenant, which depends on T only: a registered
\* blocker, writes blocked, reads blocked after T.
C4_RoleEquivalence ==
    \A o \in Ops :
        (Succeeded(o) /\ donorDoc[o].state = kBlocking) =>
            ObservableState(donorDoc[o].databasePrefix) =
                [registered |-> TRUE, writesBlocked |-> TRUE,
                 blockedReadPosition |-> donorDoc[o].blockTimestamp]

\* A secondary has applied a Blocking document through the observer alone.
C4_Witness ==
    \E o \in Ops :
        /\ ~writesAreReplicated /\ Succeeded(o)
        /\ donorDoc[o].state = kBlocking
        /\ mtabByPrefix[donorDoc[o].databasePrefix] = o

\* C5: in every reachable state of either role a blocker whose
\* readsBlockedAfter is set has writesBlocked, and startBlockingReadsAfter
\* was never invoked on a blocker that did not block writes yet.
C5_ReadsImplyWrites ==
    /\ \A b \in Ops :
          blockedReadPosition(mtabs[b]) # NoTimestamp => isBlockingWrites(mtabs[b])
    /\ fatal # "invariant:startBlockingReadsAfter"

\* Both operations of a secondary have blocked reads, each on its own tenant.
C5_Witness ==
    /\ ~writesAreReplicated
    /\ \A b \in Ops : blockedReadPosition(mtabs[b]) # NoTimestamp

\* C6: the read gate of a blocker changes only on a blocker that already
\* blocks writes, and only upwards: it is None until startBlockingWrites was
\* called, and no later step, a retried attempt with a new optime included,
\* lowers it or takes it back to None.
C6_ReadGateMonotone ==
    [][\A b \in Ops :
          blockedReadPosition(mtabs'[b]) # blockedReadPosition(mtabs[b]) =>
              /\ isBlockingWrites(mtabs[b])
              /\ blockedReadPosition(mtabs'[b]) > blockedReadPosition(mtabs[b])
      ]_vars

\* A retried attempt is about to call startBlockingReadsAfter with a new
\* optime on a blocker whose read gate an earlier attempt already set.
C6_Witness ==
    \E o \in Ops :
        /\ pc[o] = "startBlockingReadsAfter"
        /\ mtab[o] = o
        /\ blockedReadPosition(mtabs[o]) # NoTimestamp
        /\ blockedReadPosition(mtabs[o]) < donorDoc[o].blockTimestamp

\* The tenant an operation registers a blocker for.
RegisteredPrefix(o) ==
    IF writesAreReplicated
    THEN originalDoc[o].databasePrefix
    ELSE donorDoc[o].databasePrefix

\* The steps that register a blocker, or check that none is registered.
Registering(o) ==
    pc[o] \in {"mtabByPrefix.add", "mtabByPrefix.add(secondary)"}
    \/ (pc[o] = "onTransitionToBlocking" /\ ~writesAreReplicated)

\* C7: a registry entry is never replaced; a registration for a tenant that
\* has an entry aborts the process and leaves the entry and the flags of its
\* blocker as they were; an add for a tenant that has no entry succeeds
\* whatever the other tenants' entries are.
C7_SingleFlight ==
    [][/\ \A t \in Tenants :
             mtabByPrefix[t] # nullptr => mtabByPrefix'[t] = mtabByPrefix[t]
       /\ \A o \in Ops :
             (Registering(o) /\ pc'[o] # pc[o]
                 /\ mtabByPrefix[RegisteredPrefix(o)] # nullptr) =>
                 /\ fatal' # ""
                 /\ mtabs'[mtabByPrefix[RegisteredPrefix(o)]] =
                        mtabs[mtabByPrefix[RegisteredPrefix(o)]]
       /\ \A o \in Ops :
             (pc[o] \in {"mtabByPrefix.add", "mtabByPrefix.add(secondary)"}
                 /\ pc'[o] # pc[o]
                 /\ mtabByPrefix[RegisteredPrefix(o)] = nullptr) =>
                 /\ fatal' = ""
                 /\ mtabByPrefix'[RegisteredPrefix(o)] = o
      ]_vars

\* A second dataSync of a tenant has aborted at the registry, and the first
\* one's blocker is still the tenant's entry, blocking writes.
C7_Witness ==
    \E o \in Ops :
        /\ fatal = "invariant:add" /\ pc[o] = "fatal"
        /\ writesAreReplicated
        /\ mtabByPrefix[originalDoc[o].databasePrefix] \notin {nullptr, o}
        /\ isBlockingWrites(mtabs[mtabByPrefix[originalDoc[o].databasePrefix]])

kTerminal == {kCommitted, kAborted}

\* The document an operation was asked to act on: dataSync's argument on a
\* primary, the observed document on a secondary.
Request(o) == IF writesAreReplicated THEN originalDoc[o] ELSE donorDoc[o]

\* C8 as stated: every request made for a document in state Committed or
\* Aborted, once the code has looked at its state, has been rejected as an
\* integrity violation.
C8_TerminalRequestsRejected ==
    \A o \in Ops :
        (Request(o).state \in kTerminal
            /\ pc[o] \notin {"idle", "startTenantMigrationBlockOnPrimary",
                             "onTenantMigrationDonorStateTransition"}) =>
            pc[o] = "fatal"

\* C8 amended: a request for a document in state Committed or Aborted never
\* changes the persisted document, the registry or a blocker; dataSync rejects
\* it with the invariant of line 151, while the observer does not reject it:
\* it returns normally.
C8_TerminalRequestsHaveNoEffect ==
    [][\A o \in Ops :
          (Request(o).state \in kTerminal /\ pc[o] # "idle" /\ pc'[o] # pc[o]) =>
              /\ UNCHANGED <<donors, donorsOpTime, mtabByPrefix, mtabs>>
              /\ IF writesAreReplicated
                 THEN pc'[o] = "fatal" /\ fatal' = "invariant:151"
                 ELSE pc'[o] = "returned" /\ status'[o] = "OK" /\ fatal' = ""
      ]_vars

\* A secondary observed a document in a terminal state for a tenant that has
\* a blocker, and returned.
C8_Witness ==
    \E o \in Ops :
        /\ ~writesAreReplicated /\ Succeeded(o)
        /\ donorDoc[o].state \in kTerminal
        /\ mtabByPrefix[donorDoc[o].databasePrefix] # nullptr

\* C9: in every committed state of a donor document, blockTimestamp is set
\* exactly when the state is past DataSync, the document is Blocking exactly
\* when a "start blocking" write committed, and the blockTimestamp is the
\* optime that write was logged at, an optime no tenant write shares.
C9_BlockTimestampIsTheWritesOpTime ==
    \A t \in Tenants :
        donors[t] # NoDoc =>
            /\ donors[t].blockTimestamp # NoTimestamp
                   <=> donors[t].state \in {kBlocking, kCommitted, kAborted}
            /\ donorsOpTime[t] # NoTimestamp <=> donors[t].state = kBlocking
            /\ donors[t].blockTimestamp = donorsOpTime[t]
            /\ \A w \in Writers :
                  writer[w].pc = "written" => writer[w].opTime # donorsOpTime[t]

\* A "start blocking" write committed after rolled-back attempts.
C9_Witness ==
    \E t \in Tenants :
        /\ donors[t].state = kBlocking
        /\ donors[t].blockTimestamp > 1
        /\ conflicts > 0

\* The "start blocking" write of tenant t is committed.
TransitionPersisted(t) == donors[t].state = kBlocking

\* C10: a dataSync that returned a failure to its caller returned
\* NamespaceNotFound and left no partial outcome: the tenant does not have a
\* registered blocker blocking writes while its persisted document has not
\* left DataSync for Blocking.
C10_NoPartialOutcome ==
    \A o \in Ops :
        (writesAreReplicated /\ pc[o] = "returned" /\ status[o] # "OK") =>
            /\ status[o] = "NamespaceNotFound"
            /\ ~ /\ ObservableState(originalDoc[o].databasePrefix).registered
                 /\ ObservableState(originalDoc[o].databasePrefix).writesBlocked
                 /\ ~TransitionPersisted(originalDoc[o].databasePrefix)

\* C11: once a migration's record has reached Committed or Aborted, the
\* tenant's access blocker is eventually removed from the registry, so nothing
\* that waits on it waits for ever.  The record reaches a terminal state on
\* this node when a secondary's applier commits it; the observer only breaks out
\* of its switch for kCommitted and kAborted, and a blocker that an earlier
\* Blocking record registered stays registered in every later state.
C11_TerminalEventuallyUnblocks ==
    \A t \in Tenants :
        (replicated[t] # NoDoc /\ replicated[t].state \in kTerminal)
            ~> (mtabByPrefix[t] = nullptr)

\* C12: a storage conflict during the persistence of Blocking is recovered
\* inside dataSync.  The step that takes the conflict rolls the attempt back
\* (nothing of it is in the collection, its optime is given up) and sends the
\* operation back to the first step of the lambda, which opens the collection
\* and looks the document up again; no status of a conflict ever reaches the
\* caller; and, the conflicts being finitely many, every dataSync that was
\* called ends: it returns OK or NamespaceNotFound, or the process is aborted
\* by an invariant.
C12_ConflictsRecoveredLocally ==
    /\ [][\A o \in Ops :
            (conflicts' # conflicts /\ pc'[o] # pc[o]) =>
                /\ pc'[o] = "doStartBlockingWrite"
                /\ oplogSlot'[o] = NoTimestamp
                /\ status'[o] = ""
                /\ UNCHANGED <<collection, donors, donorsOpTime>>]_vars
    /\ [](\A o \in Ops : status[o] \in {"", "OK", "NamespaceNotFound"})
    /\ \A o \in Ops :
          (writesAreReplicated /\ pc[o] # "idle")
              ~> (pc[o] = "returned" \/ fatal # "")

\* An attempt whose commit took a conflict, after the observer had blocked the
\* reads, is about to be retried.
C12_Witness ==
    \E o \in Ops :
        /\ pc[o] = "doStartBlockingWrite"
        /\ conflicts > 0
        /\ oplogSlot[o] = NoTimestamp
        /\ blockedReadPosition(mtabs[o]) # NoTimestamp

\* C13: tenant isolation.  Every step of an operation that acts for tenant
\* A, on either role, whether the operation goes on to succeed, to fail or to
\* abort, leaves as they were the registry entry, the persisted and the
\* replicated document of every other tenant B, and every blocker that
\* belongs to an operation of another tenant.
C13_TenantIsolation ==
    [][\A o \in Ops :
          pc'[o] # pc[o] =>
              /\ \A B \in Tenants \ {RegisteredPrefix(o)'} :
                    /\ mtabByPrefix'[B] = mtabByPrefix[B]
                    /\ ObservableState(B)' = ObservableState(B)
                    /\ donors'[B] = donors[B]
                    /\ donorsOpTime'[B] = donorsOpTime[B]
                    /\ replicated'[B] = replicated[B]
              /\ \A o2 \in Ops \ {o} :
                    RegisteredPrefix(o2) # RegisteredPrefix(o)' =>
                        mtabs'[o2] = mtabs[o2]]_vars

\* On a primary the migration of one tenant has been persisted while the
\* dataSync of another tenant, which has blocked its reads, is about to
\* commit.
C13_Witness ==
    \E o \in Ops, o2 \in Ops :
        /\ writesAreReplicated
        /\ Succeeded(o) /\ pc[o2] = "commit"
        /\ originalDoc[o].databasePrefix # originalDoc[o2].databasePrefix
        /\ ObservableState(originalDoc[o2].databasePrefix).blockedReadPosition # NoTimestamp

\* C14: on a secondary the observer of a replayed Blocking document reserves
\* no optime and writes nothing to the donors collection.  With a
\* blockTimestamp in the document, it aborts the process when a blocker is
\* registered for the tenant and changes nothing; otherwise it constructs a
\* fresh blocker, registers that blocker while it blocks nothing, calls
\* startBlockingWrites on the registered blocker and only then
\* startBlockingReadsAfter, with the blockTimestamp of the replayed document.
C14_ReplayOnSecondary ==
    [][~writesAreReplicated =>
        /\ UNCHANGED <<nextOpTime, collection, donors, donorsOpTime, oplogSlot>>
        /\ \A o \in Ops :
              LET t == donorDoc[o].databasePrefix IN
              /\ (/\ pc[o] = "onTransitionToBlocking" /\ pc'[o] # pc[o]
                  /\ donorDoc[o].blockTimestamp # NoTimestamp) =>
                     IF mtabByPrefix[t] # nullptr
                     THEN fatal' = "invariant:68" /\ UNCHANGED <<mtabByPrefix, mtabs>>
                     ELSE /\ mtabs'[o] = MigratingTenantAccessBlocker
                          /\ mtab'[o] = o
                          /\ UNCHANGED <<mtabByPrefix, fatal>>
              /\ (pc'[o] # pc[o] /\ mtabByPrefix' # mtabByPrefix) =>
                     /\ mtabByPrefix[t] = nullptr /\ mtabByPrefix'[t] = o
                     /\ mtabs[o] = MigratingTenantAccessBlocker
                     /\ UNCHANGED mtabs
              /\ (isBlockingWrites(mtabs[o])' /\ ~isBlockingWrites(mtabs[o])) =>
                     /\ mtabByPrefix[t] = o
                     /\ blockedReadPosition(mtabs[o])' = NoTimestamp
              /\ blockedReadPosition(mtabs[o])' # blockedReadPosition(mtabs[o]) =>
                     /\ mtabByPrefix[t] = o
                     /\ isBlockingWrites(mtabs[o])
                     /\ blockedReadPosition(mtabs[o])' = donorDoc[o].blockTimestamp]_vars

\* A secondary replayed a Blocking document to the end, and the replay of a
\* second Blocking document of that tenant aborted the process.
C14_Witness ==
    /\ ~writesAreReplicated
    /\ fatal = "invariant:68"
    /\ \E o \in Ops :
          /\ Succeeded(o)
          /\ donorDoc[o].state = kBlocking
          /\ mtabs[o] = [created |-> TRUE, writesBlocked |-> TRUE,
                          readsBlockedAfter |-> donorDoc[o].blockTimestamp]

\* C15: on both roles startBlockingReadsAfter(P) has been called when the
\* "start blocking" write at P commits.  In no reachable state is a Blocking
\* document committed (on a primary by dataSync, on a secondary by the
\* applier) while the tenant has no registered blocker or its
\* blockedReadPosition is still None; the position is the blockTimestamp of
\* the committed document.
C15_ReadsBlockedBeforeCommit ==
    \A t \in Tenants :
        /\ donors[t].state = kBlocking =>
              /\ ObservableState(t).registered
              /\ ObservableState(t).blockedReadPosition # NoTimestamp
              /\ ObservableState(t).blockedReadPosition = donors[t].blockTimestamp
        /\ replicated[t].state = kBlocking =>
              /\ ObservableState(t).registered
              /\ ObservableState(t).blockedReadPosition # NoTimestamp
              /\ ObservableState(t).blockedReadPosition = replicated[t].blockTimestamp

\* A primary committed the Blocking document of a tenant at the optime of a
\* retried attempt, with a write of the tenant waiting on the blocker.
C15_Witness ==
    \E t \in Tenants, w \in Writers :
        /\ donors[t].state = kBlocking
        /\ donorsOpTime[t] > 1
        /\ writer[w].pc = "blocked" /\ writer[w].prefix = t

\* The operation is being handed an observed document.
Observing(o) == pc[o] = "onTenantMigrationDonorStateTransition"

\* C16: the observer routes each observed document by its state.  The step
\* that looks at a Blocking document enters the blocking path, and the
\* blocking path is entered by no other step, so once per observation; the
\* step that looks at a DataSync, Committed or Aborted document returns from
\* the observer and leaves the registry and every blocker as they were.
C16_RoutedByState ==
    [][\A o \in Ops :
          /\ (Observing(o) /\ pc'[o] # pc[o]) =>
                IF donorDoc[o].state = kBlocking
                THEN pc'[o] = "onTransitionToBlocking"
                ELSE /\ pc'[o] = IF writesAreReplicated THEN "commit" ELSE "returned"
                     /\ UNCHANGED <<mtabByPrefix, mtabs, fatal>>
          /\ (pc'[o] = "onTransitionToBlocking" /\ pc'[o] # pc[o]) =>
                Observing(o) /\ donorDoc[o].state = kBlocking]_vars

\* A secondary was handed a DataSync document of a tenant whose blocker is
\* registered and blocks reads, and the observer has returned.
C16_Witness ==
    \E o \in Ops :
        /\ ~writesAreReplicated /\ Succeeded(o)
        /\ donorDoc[o].state = kDataSync
        /\ donorDoc[o].blockTimestamp # NoTimestamp
        /\ ObservableState(donorDoc[o].databasePrefix).blockedReadPosition # NoTimestamp

\* C17: an observed Blocking document without a blockTimestamp is a fatal
\* integrity violation found before any effect.  No step the observer takes
\* for such a document changes the registry, a blocker or a flag, and the
\* first step of the blocking path aborts the process on the invariant of
\* line 59; when the process has aborted on it, the operation that hit it
\* has constructed and registered no blocker and committed nothing.
C17_MissingBlockTimestampIsFatal ==
    /\ [][\A o \in Ops :
            (/\ donorDoc[o].state = kBlocking
             /\ donorDoc[o].blockTimestamp = NoTimestamp
             /\ pc'[o] # pc[o]) =>
                /\ UNCHANGED <<mtabByPrefix, mtabs, mtab, storeVars, replicated, nextOpTime>>
                /\ Observing(o) => pc'[o] = "onTransitionToBlocking"
                /\ pc[o] = "onTransitionToBlocking" => fatal' = "invariant:59"]_vars
    /\ [](fatal = "invariant:59" =>
            \E o \in Ops :
                /\ pc[o] = "fatal"
                /\ donorDoc[o].state = kBlocking
                /\ donorDoc[o].blockTimestamp = NoTimestamp
                /\ mtabs[o] = NoBlocker /\ mtab[o] = nullptr
                /\ \A t \in Tenants : mtabByPrefix[t] # o)

\* A secondary aborted on a Blocking document without blockTimestamp while
\* the blocker of an earlier Blocking document of the tenant is registered.
C17_Witness ==
    /\ fatal = "invariant:59"
    /\ \E o \in Ops :
          /\ pc[o] = "fatal"
          /\ mtabByPrefix[donorDoc[o].databasePrefix] # nullptr

\* C18 as stated: on both roles, in every reachable state, the blocker a
\* registry lookup returns blocks writes.
C18_LookupReturnsWriteBlocked ==
    \A t \in Tenants :
        ObservableState(t).registered => ObservableState(t).writesBlocked

\* C18: on a primary, in every reachable state, the blocker a registry lookup
\* returns blocks writes (startBlockingWrites, line 157, precedes add, line
\* 159).  On a secondary a lookup can return a blocker that does not block
\* writes yet, and only while the operation that registered it stands between
\* its add (line 74) and its startBlockingWrites (line 75).
C18_PublishedWriteBlockedOnPrimary ==
    \A t \in Tenants :
        (ObservableState(t).registered /\ ~ObservableState(t).writesBlocked) =>
            /\ ~writesAreReplicated
            /\ pc[mtabByPrefix[t]] = "startBlockingWrites"
            /\ donorDoc[mtabByPrefix[t]].databasePrefix = t

\* A secondary has registered the blocker of a tenant and has not called
\* startBlockingWrites on it yet, while another replay is under way.
C18_Witness ==
    \E t \in Tenants, o \in Ops :
        /\ mtabByPrefix[t] = o
        /\ ~isBlockingWrites(mtabs[o])
        /\ \E o2 \in Ops \ {o} : Observing(o2)

\* The optimes that are in use: reserved by an attempt or by a write, logged
\* for a committed document, or given to a blocker as its read position.
OpTimesInUse ==
    {oplogSlot[o] : o \in Ops} \cup {donorsOpTime[t] : t \in Tenants}
        \cup {writer[w].opTime : w \in Writers}
        \cup {blockedReadPosition(mtabs[o]) : o \in Ops}

\* C19: within one dataSync of a primary the blocker is constructed and
\* write-blocked once (in one step, from a cell that held no blocker, and it
\* stays so) and registered once (for the document's tenant, by the step
\* after, and the entry stays); a retry after a conflict finds the blocker
\* registered and blocking writes and leaves registry and blocker alone;
\* every attempt reserves an optime greater than every optime in use, so
\* greater than those of the attempts before it; and every
\* startBlockingReadsAfter of the dataSync acts on the blocker the dataSync
\* constructed, which is the tenant's registered one.
C19_OneBlockerPerDataSync ==
    [][writesAreReplicated =>
        \A o \in Ops :
            IF originalDoc[o] = NoDoc THEN mtabs'[o] = mtabs[o] ELSE
            LET t == originalDoc[o].databasePrefix IN
            /\ (mtabs'[o].created # mtabs[o].created
                    \/ isBlockingWrites(mtabs[o])' # isBlockingWrites(mtabs[o])) =>
                   /\ pc[o] = "startTenantMigrationBlockOnPrimary"
                   /\ mtabs[o] = NoBlocker
                   /\ mtabs'[o].created /\ isBlockingWrites(mtabs[o])'
            /\ (pc'[o] # pc[o] /\ pc[o] = "startTenantMigrationBlockOnPrimary") =>
                   mtabs[o] = NoBlocker
            /\ (pc'[o] # pc[o] /\ pc[o] = "mtabByPrefix.add") =>
                   \A t3 \in Tenants : mtabByPrefix[t3] # o
            /\ \A t2 \in Tenants :
                   (mtabByPrefix'[t2] # mtabByPrefix[t2] /\ mtabByPrefix'[t2] = o) =>
                       /\ pc[o] = "mtabByPrefix.add" /\ t2 = t
                       /\ mtabByPrefix[t2] = nullptr
                       /\ \A t3 \in Tenants : mtabByPrefix[t3] # o
            /\ mtabByPrefix[t] = o => mtabByPrefix'[t] = o
            /\ (conflicts' # conflicts /\ pc'[o] # pc[o]) =>
                   /\ mtabByPrefix[t] = o
                   /\ mtabs[o].created /\ isBlockingWrites(mtabs[o])
                   /\ UNCHANGED <<mtabByPrefix, mtabs, mtab>>
            /\ (oplogSlot'[o] # oplogSlot[o] /\ oplogSlot'[o] # NoTimestamp) =>
                   /\ oplogSlot[o] = NoTimestamp
                   /\ \A p \in OpTimesInUse : p < oplogSlot'[o]
            /\ (pc'[o] # pc[o] /\ mtabs' # mtabs
                    /\ pc[o] # "startTenantMigrationBlockOnPrimary") =>
                   /\ pc[o] = "startBlockingReadsAfter"
                   /\ mtab[o] = o /\ mtabByPrefix[t] = o
                   /\ \A o2 \in Ops \ {o} : mtabs'[o2] = mtabs[o2]
                   /\ blockedReadPosition(mtabs[o])' = oplogSlot[o]]_vars

\* The third attempt of a dataSync, the only one running, has blocked the
\* reads of its blocker at the third optime and is about to commit.
C19_Witness ==
    \E o \in Ops :
        /\ pc[o] = "commit"
        /\ conflicts = MaxConflicts
        /\ oplogSlot[o] = MaxConflicts + 1
        /\ mtab[o] = o
        /\ blockedReadPosition(mtabs[o]) = oplogSlot[o]
        /\ \A o2 \in Ops \ {o} : pc[o2] = "idle"

====
